---- MODULE Spec2Model ----
(***************************************************************************)
(* Model of rconjs: the Source RCON packet codec                           *)
(* (rcon_create_packet_structure / rcon_get_packet_structure) and the      *)
(* session object returned by rcon_connect (send / auth / command / close) *)
(* running on a node:net socket.                                           *)
(*                                                                         *)
(* Strings are sequences of UTF-16 code units, buffers are sequences of    *)
(* bytes (0..255).  A JavaScript value that reaches a caller is a tagged   *)
(* record: [t |-> "object", v |-> packet], [t |-> "string", v |-> s] or    *)
(* [t |-> "error", v |-> message].                                         *)
(***************************************************************************)
EXTENDS Integers, Sequences, FiniteSets, TLC

(* ------------------------------ bounds -------------------------------- *)
\* longest body given to the codec
MaxLen == 2
\* number of send calls (auth / command) made on one session
MaxCalls == 2
\* number of chunks the server sends on one connection
MaxChunks == 2
\* chunks received by the socket and not yet emitted as 'data'
MaxInflight == 1
\* number of close() calls
MaxClose == 2

(* --------------------------- program constants ------------------------ *)
SERVERDATA_AUTH == 3
SERVERDATA_AUTH_RESPONSE == 2
SERVERDATA_EXECCOMMAND == 2
SERVERDATA_RESPONSE_VALUE == 0
\* the fixed id of the packet written by auth
AUTH_ID == 10
\* crypto.randomInt(10000) draws from 0 .. RANDOM_MAX - 1
RANDOM_MAX == 10000

\* one byte holds 0 .. TwoP8 - 1
TwoP8 == 256
\* the int32 range is INT32_MIN .. INT32_MAX
INT32_MAX == 2147483647
INT32_MIN == (-INT32_MAX) - 1

(* ----------------------------- input sets ----------------------------- *)
\* code units: NUL, 'a', DEL (the last ASCII one), e-acute, the euro sign
CodeUnits == {0, 97, 127, 233, 8364}
RECURSIVE StringsUpTo(_)
StringsUpTo(n) ==
  IF n = 0 THEN {<< >>}
  ELSE LET shorter == StringsUpTo(n - 1)
       IN  shorter \cup {Append(s, c) : s \in {t \in shorter : Len(t) = n - 1}, c \in CodeUnits}
Bodies == StringsUpTo(MaxLen)
Int32Samples == {INT32_MIN, -1, 0, AUTH_ID, 256, RANDOM_MAX - 1, INT32_MAX}
TypeCodes == {SERVERDATA_RESPONSE_VALUE, SERVERDATA_EXECCOMMAND, SERVERDATA_AUTH}
IsAscii(s) == \A i \in 1..Len(s) : s[i] < 128

(* ------------------------------- Buffer ------------------------------- *)
\* Buffer.alloc(n): n zero bytes
BufferAlloc(n) == [i \in 1..n |-> 0]

\* Buffer.byteLength(s): the length of s in UTF-8
Utf8Len(c) == IF c < 128 THEN 1 ELSE IF c < 2048 THEN 2 ELSE 3
RECURSIVE BufferByteLength(_)
BufferByteLength(s) ==
  IF s = << >> THEN 0 ELSE Utf8Len(Head(s)) + BufferByteLength(Tail(s))

\* buf.writeInt32LE(value, offset), for an int32 value: two's complement,
\* least significant byte first (\div rounds down, % is never negative)
WriteInt32LE(buf, value, offset) ==
  [buf EXCEPT ![offset + 1] = value % TwoP8,
              ![offset + 2] = (value \div TwoP8) % TwoP8,
              ![offset + 3] = (value \div (TwoP8 * TwoP8)) % TwoP8,
              ![offset + 4] = (value \div (TwoP8 * TwoP8 * TwoP8)) % TwoP8]

\* buf.writeInt16LE(value, offset)
WriteInt16LE(buf, value, offset) ==
  [buf EXCEPT ![offset + 1] = value % TwoP8,
              ![offset + 2] = (value \div TwoP8) % TwoP8]

\* buf.write(s, offset, length, 'ascii'): one byte per code unit (its low
\* eight bits), at most length bytes and never past the end of buf
Min(a, b) == IF a < b THEN a ELSE b
WriteAscii(buf, s, offset, length) ==
  LET room == IF Len(buf) - offset < 0 THEN 0 ELSE Len(buf) - offset
      n == Min(Len(s), Min(length, room))
  IN  [i \in 1..Len(buf) |->
         IF i > offset /\ i <= offset + n THEN s[i - offset] % TwoP8 ELSE buf[i]]

\* buf.readInt32LE(offset), for offset + 4 <= buf.length
ReadInt32LE(buf, offset) ==
  LET top == IF buf[offset + 4] >= 128 THEN buf[offset + 4] - TwoP8 ELSE buf[offset + 4]
  IN  buf[offset + 1] + buf[offset + 2] * TwoP8
        + buf[offset + 3] * TwoP8 * TwoP8
        + top * TwoP8 * TwoP8 * TwoP8

\* buf.toString('ascii', start, end): each byte with its high bit cleared
ToStringAscii(buf, start, end) ==
  LET e == Min(end, Len(buf))
  IN  IF e <= start THEN << >>
      ELSE [i \in 1..(e - start) |-> buf[start + i] % 128]

(* -------------------------- the packet codec -------------------------- *)
\* variant: the size field holds the whole length of the buffer
rcon_create_packet_structure_sizeTotal(id, type, body) ==
  LET size == BufferByteLength(body) + 14
      b0 == BufferAlloc(size)
      b1 == WriteInt32LE(b0, size, 0)
      b2 == WriteInt32LE(b1, id, 4)
      b3 == WriteInt32LE(b2, type, 8)
      b4 == WriteAscii(b3, body, 12, size - 2)
  IN  WriteInt16LE(b4, 0, size - 2)

rcon_create_packet_structure(id, type, body) ==
  LET size == BufferByteLength(body) + 14
      b0 == BufferAlloc(size)
      b1 == WriteInt32LE(b0, size - 4, 0)
      b2 == WriteInt32LE(b1, id, 4)
      b3 == WriteInt32LE(b2, type, 8)
      b4 == WriteAscii(b3, body, 12, size - 2)
  IN  WriteInt16LE(b4, 0, size - 2)

\* readInt32LE throws a RangeError when the four bytes are not all inside
\* the buffer; the three reads are at offsets 0, 4 and 8
Decodable(buffer) == Len(buffer) >= 12
\* variant: the body runs to the end of the buffer, terminator included
rcon_get_packet_structure_keepTerminator(buffer) ==
  [size |-> ReadInt32LE(buffer, 0),
   id   |-> ReadInt32LE(buffer, 4),
   type |-> ReadInt32LE(buffer, 8),
   body |-> ToStringAscii(buffer, 12, Len(buffer))]

rcon_get_packet_structure(buffer) ==
  [size |-> ReadInt32LE(buffer, 0),
   id   |-> ReadInt32LE(buffer, 4),
   type |-> ReadInt32LE(buffer, 8),
   body |-> ToStringAscii(buffer, 12, Len(buffer) - 2)]

(* ------------------------------- state -------------------------------- *)
VARIABLES
  cPc,            \* codec run: "input", "encoded" or "decoded"
  cId, cType, cBody,  \* the arguments of rcon_create_packet_structure
  cBuf,           \* the buffer it returned
  cPkt,           \* what rcon_get_packet_structure made of that buffer
  sock,           \* the net.Socket: "none", "connecting", "open", "destroyed"
  errored,        \* the error the socket was destroyed with, or "none"
  ended,          \* connection.end() has been called
  connectP,       \* the promise of rcon_connect: [status, value]
  attempts,       \* number of net.createConnection calls
  dataListeners,  \* 'data' listeners of the socket, in order of registration
  errorListeners, \* 'error' listeners of the socket, in order of registration
  calls,          \* the send calls made so far: [kind, status, value, invoked]
  written,        \* the buffers given to connection.write, in order
  inbound,        \* chunks received by the socket, not yet emitted as 'data'
  sent,           \* number of chunks the server has sent
  closes,         \* number of close() calls made
  uncaught        \* message of the exception that ended the process, or "none"

codecVars == <<cPc, cId, cType, cBody, cBuf, cPkt>>
sessionVars == <<sock, errored, ended, connectP, attempts, dataListeners, errorListeners,
                 calls, written, inbound, sent, closes, uncaught>>
vars == <<cPc, cId, cType, cBody, cBuf, cPkt, sock, errored, ended, connectP, attempts,
          dataListeners, errorListeners, calls, written, inbound, sent, closes,
          uncaught>>

(* --------------------------- JavaScript values ------------------------ *)
Undefined == [t |-> "undefined", v |-> << >>]
Obj(packet) == [t |-> "object", v |-> packet]
Str(s) == [t |-> "string", v |-> s]
Err(message) == [t |-> "error", v |-> message]

\* variant: a later resolve replaces the value of the promise
Resolve_overwrite(p, value) ==
  IF p.status # "rejected" THEN [p EXCEPT !.status = "resolved", !.value = value] ELSE p

\* a promise settles once: resolve and reject of a settled promise do nothing
Resolve(p, value) ==
  IF p.status = "pending" THEN [p EXCEPT !.status = "resolved", !.value = value] ELSE p
Reject(p, error) ==
  IF p.status = "pending" THEN [p EXCEPT !.status = "rejected", !.value = Err(error)] ELSE p

(* ------------------------- inputs of the session ---------------------- *)
Passwords == {<<112>>}
Commands == {<<99>>}
\* values of crypto.randomInt(10000) that are tried
RandomIds == {0, RANDOM_MAX - 1}
\* the errors the socket reports
SocketErrors == {"ECONNRESET", "ETIMEDOUT"}

\* chunks the server sends, as bytes on the wire
\* {size 10, id 10, type 2, body ""}: the reply to a good password
ChunkAuthOk == <<10, 0, 0, 0, 10, 0, 0, 0, 2, 0, 0, 0, 0, 0>>
\* {size 10, id -1, type 2, body ""}: the reply to a bad password
ChunkAuthBad == <<10, 0, 0, 0, 255, 255, 255, 255, 2, 0, 0, 0, 0, 0>>
\* {size 11, id 0, type 0, body "p"}: the reply to a command, with the id of
\* the request when crypto.randomInt gave 0
ChunkValue == <<11, 0, 0, 0, 0, 0, 0, 0, 0, 0, 0, 0, 112, 0, 0>>
\* {size 10, id -1, type 0, body ""}
ChunkValueMinus1 == <<10, 0, 0, 0, 255, 255, 255, 255, 0, 0, 0, 0, 0, 0>>
\* three bytes: too short for the header
ChunkShort == <<10, 0, 0>>
Chunks == {ChunkAuthOk, ChunkAuthBad, ChunkValue, ChunkValueMinus1, ChunkShort}

(* ------------------------------- codec run ---------------------------- *)
CodecIdle ==
  /\ cPc = "input" /\ cId = 0 /\ cType = 0 /\ cBody = << >>
  /\ cBuf = << >> /\ cPkt = Undefined

SessionIdle ==
  /\ sock = "none" /\ errored = "none" /\ ended = FALSE
  /\ connectP = [status |-> "none", value |-> Undefined]
  /\ attempts = 0
  /\ dataListeners = << >> /\ errorListeners = << >>
  /\ calls = << >> /\ written = << >> /\ inbound = << >>
  /\ sent = 0 /\ closes = 0 /\ uncaught = "none"

CodecInit ==
  /\ cPc = "input"
  /\ cId \in Int32Samples /\ cType \in TypeCodes /\ cBody \in Bodies
  /\ cBuf = << >> /\ cPkt = Undefined
  /\ SessionIdle

Encode ==
  /\ cPc = "input"
  /\ cBuf' = rcon_create_packet_structure(cId, cType, cBody)
  /\ cPc' = "encoded"
  /\ UNCHANGED <<cId, cType, cBody, cPkt>>
  /\ UNCHANGED sessionVars

Decode ==
  /\ cPc = "encoded"
  /\ Decodable(cBuf)
  /\ cPkt' = Obj(rcon_get_packet_structure(cBuf))
  /\ cPc' = "decoded"
  /\ UNCHANGED <<cId, cType, cBody, cBuf>>
  /\ UNCHANGED sessionVars

CodecNext == Encode \/ Decode
CodecSpec == CodecInit /\ [][CodecNext]_vars

(* ------------------------- the session: handlers ---------------------- *)
Alive == uncaught = "none"
HasSession == connectP.status = "resolved"

\* variant: the id of the packet is not looked at
IsWrongPassword_typeOnly(packet) == packet.type = 2

\* variant: the type of the packet is not looked at
IsWrongPassword_idOnly(packet) == packet.id = -1

\* the test of the 'data' listener that send registers
IsWrongPassword(packet) == packet.type = 2 /\ packet.id = -1

\* the code of the RangeError that readInt32LE throws: the first read fails on
\* a buffer of fewer than four bytes, a later read on an offset out of range
RangeErrorCode(buffer) ==
  IF Len(buffer) < 4 THEN "ERR_BUFFER_OUT_OF_BOUNDS" ELSE "ERR_OUT_OF_RANGE"

\* variant: the listener resolves with the body of the packet
send_onData_resolveBody(data) ==
  IF ~Decodable(data)
    THEN [do |-> "throw", value |-> Err(RangeErrorCode(data))]
  ELSE LET packet == rcon_get_packet_structure(data)
       IN  IF IsWrongPassword(packet)
             THEN [do |-> "throw", value |-> Err("Wrong RCON password!")]
             ELSE [do |-> "resolve", value |-> Str(packet.body)]

\* what the 'data' listener of a send does with a chunk: "resolve" with the
\* decoded packet, or "throw" (the RangeError of readInt32LE on a chunk that
\* is too short, or the Error of the password check)
send_onData(data) ==
  IF ~Decodable(data)
    THEN [do |-> "throw", value |-> Err(RangeErrorCode(data))]
  ELSE LET packet == rcon_get_packet_structure(data)
       IN  IF IsWrongPassword(packet)
             THEN [do |-> "throw", value |-> Err("Wrong RCON password!")]
             ELSE [do |-> "resolve", value |-> Obj(packet)]

\* socket.emit('data', chunk): the listeners run in order of registration; an
\* exception thrown by one leaves emit, the later listeners do not run.
\* Listener n is the closure of call n.  Gives the calls and the exception.
RECURSIVE EmitData(_, _, _)
EmitData(listeners, data, cs) ==
  IF listeners = << >> THEN [calls |-> cs, thrown |-> "none"]
  ELSE LET n == Head(listeners)
           r == send_onData(data)
           seen == [cs EXCEPT ![n].invoked = @ + 1]
       IN  IF r.do = "throw"
             THEN [calls |-> seen, thrown |-> r.value.v]
             ELSE EmitData(Tail(listeners), data,
                           [seen EXCEPT ![n] = Resolve(@, r.value)])

\* socket.emit('error', error): listener 0 is the one rcon_create_connection
\* registered (it rejects the promise of the connection), listener n > 0 is
\* the one send registered for call n (it rejects the promise of that call)
RECURSIVE EmitErrorCalls(_, _, _)
EmitErrorCalls(listeners, error, cs) ==
  IF listeners = << >> THEN cs
  ELSE LET n == Head(listeners)
       IN  EmitErrorCalls(Tail(listeners), error,
                          IF n = 0 THEN cs ELSE [cs EXCEPT ![n] = Reject(@, error)])

EmitErrorConnect(listeners, error, p) ==
  IF \E i \in 1..Len(listeners) : listeners[i] = 0 THEN Reject(p, error) ELSE p

(* ------------------------- the session: actions ----------------------- *)
\* variant: a connection that failed is tried again
Connect_retry ==
  /\ Alive /\ sock \in {"none", "destroyed"} /\ connectP.status \in {"none", "rejected"}
  /\ attempts < 2
  /\ sock' = "connecting"
  /\ errored' = "none"
  /\ attempts' = attempts + 1
  /\ connectP' = [status |-> "pending", value |-> Undefined]
  /\ errorListeners' = <<0>>
  /\ UNCHANGED <<ended, dataListeners, calls, written, inbound, sent, closes, uncaught>>
  /\ UNCHANGED codecVars

\* rcon_connect(host, port): net.createConnection(...).on('error', reject)
Connect ==
  /\ Alive /\ sock = "none" /\ connectP.status = "none"
  /\ sock' = "connecting"
  /\ attempts' = attempts + 1
  /\ connectP' = [status |-> "pending", value |-> Undefined]
  /\ errorListeners' = Append(errorListeners, 0)
  /\ UNCHANGED <<errored, ended, dataListeners, calls, written, inbound, sent, closes, uncaught>>
  /\ UNCHANGED codecVars

\* the 'connect' callback: resolve(socket); rcon_connect returns the session
ConnectOk ==
  /\ Alive /\ sock = "connecting"
  /\ sock' = "open"
  /\ connectP' = Resolve(connectP, Obj("session"))
  /\ UNCHANGED <<errored, ended, attempts, dataListeners, errorListeners, calls, written,
                 inbound, sent, closes, uncaught>>
  /\ UNCHANGED codecVars

\* the socket emits 'error' and is destroyed; an 'error' event without a
\* listener is thrown
SocketError(error) ==
  /\ Alive /\ sock \in {"connecting", "open"}
  /\ sock' = "destroyed"
  /\ errored' = error
  /\ inbound' = << >>
  /\ connectP' = EmitErrorConnect(errorListeners, error, connectP)
  /\ calls' = EmitErrorCalls(errorListeners, error, calls)
  /\ uncaught' = IF errorListeners = << >> THEN error ELSE uncaught
  /\ UNCHANGED <<ended, attempts, dataListeners, errorListeners, written, sent, closes>>
  /\ UNCHANGED codecVars

\* variant: the listeners of the earlier calls are not removed
send_keepListeners(kind, packet) ==
  LET n == Len(calls) + 1
  IN  /\ written' = Append(written, packet)
      /\ calls' = Append(calls, [kind |-> kind, status |-> "pending",
                                 value |-> Undefined, invoked |-> 0])
      /\ dataListeners' = Append(dataListeners, n)
      /\ errorListeners' = Append(errorListeners, n)
      /\ UNCHANGED <<sock, errored, ended, connectP, attempts, inbound, sent, closes, uncaught>>
      /\ UNCHANGED codecVars

\* variant: the packet is written now, the listeners are registered in a
\* later turn of the event loop
send_deferListeners(kind, packet) ==
  /\ written' = Append(written, packet)
  /\ calls' = Append(calls, [kind |-> kind, status |-> "pending",
                             value |-> Undefined, invoked |-> 0])
  /\ UNCHANGED <<dataListeners, errorListeners>>
  /\ UNCHANGED <<sock, errored, ended, connectP, attempts, inbound, sent, closes, uncaught>>
  /\ UNCHANGED codecVars

\* variant: no 'error' listener is registered for the call
send_noErrorListener(kind, packet) ==
  LET n == Len(calls) + 1
  IN  /\ written' = Append(written, packet)
      /\ calls' = Append(calls, [kind |-> kind, status |-> "pending",
                                 value |-> Undefined, invoked |-> 0])
      /\ dataListeners' = <<n>>
      /\ errorListeners' = << >>
      /\ UNCHANGED <<sock, errored, ended, connectP, attempts, inbound, sent, closes, uncaught>>
      /\ UNCHANGED codecVars

\* send(packet): connection.write(packet), then the executor of the new
\* promise replaces the 'data' and the 'error' listeners of the socket
send(kind, packet) ==
  LET n == Len(calls) + 1
  IN  /\ written' = Append(written, packet)
      /\ calls' = Append(calls, [kind |-> kind, status |-> "pending",
                                 value |-> Undefined, invoked |-> 0])
      /\ dataListeners' = <<n>>
      /\ errorListeners' = <<n>>
      /\ UNCHANGED <<sock, errored, ended, connectP, attempts, inbound, sent, closes, uncaught>>
      /\ UNCHANGED codecVars

\* auth(password)
Auth(password) ==
  /\ Alive /\ HasSession /\ Len(calls) < MaxCalls
  /\ send("auth", rcon_create_packet_structure(AUTH_ID, SERVERDATA_AUTH, password))

\* variant: a command needs an auth that has resolved
Command_requiresAuth(name, randomInt) ==
  /\ Alive /\ HasSession /\ Len(calls) < MaxCalls
  /\ \E c \in 1..Len(calls) : calls[c].kind = "auth" /\ calls[c].status = "resolved"
  /\ send("command", rcon_create_packet_structure(randomInt, SERVERDATA_EXECCOMMAND, name))

\* variant: the id is one less than the random integer
Command_idMinus1(name, randomInt) ==
  /\ Alive /\ HasSession /\ Len(calls) < MaxCalls
  /\ send("command", rcon_create_packet_structure(randomInt - 1, SERVERDATA_EXECCOMMAND, name))

\* command(name)
Command(name, randomInt) ==
  /\ Alive /\ HasSession /\ Len(calls) < MaxCalls
  /\ send("command", rcon_create_packet_structure(randomInt, SERVERDATA_EXECCOMMAND, name))

\* variant: close() rejects the send that is pending
Close_rejectsPending ==
  /\ Alive /\ HasSession /\ closes < MaxClose
  /\ ended' = TRUE
  /\ closes' = closes + 1
  /\ calls' = [c \in 1..Len(calls) |-> Reject(calls[c], "closed")]
  /\ UNCHANGED <<sock, errored, connectP, attempts, dataListeners, errorListeners,
                 written, inbound, sent, uncaught>>
  /\ UNCHANGED codecVars

\* variant: ending a socket that was already ended throws
Close_throwsWhenEnded ==
  /\ Alive /\ HasSession /\ closes < MaxClose
  /\ ended' = TRUE
  /\ closes' = closes + 1
  /\ uncaught' = IF ended THEN "ERR_STREAM_ALREADY_FINISHED" ELSE uncaught
  /\ UNCHANGED <<sock, errored, connectP, attempts, dataListeners, errorListeners, calls,
                 written, inbound, sent>>
  /\ UNCHANGED codecVars

\* close(): connection.end(); end() of a socket that was already ended does
\* nothing
Close ==
  /\ Alive /\ HasSession /\ closes < MaxClose
  /\ ended' = TRUE
  /\ closes' = closes + 1
  /\ UNCHANGED <<sock, errored, connectP, attempts, dataListeners, errorListeners, calls,
                 written, inbound, sent, uncaught>>
  /\ UNCHANGED codecVars

\* the server sends a chunk; the socket receives it
ServerSend(chunk) ==
  /\ Alive /\ sock = "open" /\ sent < MaxChunks /\ Len(inbound) < MaxInflight
  /\ inbound' = Append(inbound, chunk)
  /\ sent' = sent + 1
  /\ UNCHANGED <<sock, errored, ended, connectP, attempts, dataListeners, errorListeners,
                 calls, written, closes, uncaught>>
  /\ UNCHANGED codecVars

\* variant: the listener is registered with once, a chunk removes it
Deliver_once ==
  /\ Alive /\ sock = "open" /\ inbound # << >> /\ dataListeners # << >>
  /\ LET r == EmitData(dataListeners, Head(inbound), calls)
     IN  /\ calls' = r.calls
         /\ uncaught' = r.thrown
  /\ inbound' = Tail(inbound)
  /\ dataListeners' = << >>
  /\ UNCHANGED <<sock, errored, ended, connectP, attempts, errorListeners,
                 written, sent, closes>>
  /\ UNCHANGED codecVars

\* the socket emits 'data' with the oldest chunk it holds.  The socket is
\* paused until the first 'data' listener is registered; from then on it
\* flows, and send always leaves one listener registered.
Deliver ==
  /\ Alive /\ sock = "open" /\ inbound # << >> /\ dataListeners # << >>
  /\ LET r == EmitData(dataListeners, Head(inbound), calls)
     IN  /\ calls' = r.calls
         /\ uncaught' = r.thrown
  /\ inbound' = Tail(inbound)
  /\ UNCHANGED <<sock, errored, ended, connectP, attempts, dataListeners, errorListeners,
                 written, sent, closes>>
  /\ UNCHANGED codecVars

Init == CodecIdle /\ SessionIdle

Next ==
  \/ Connect
  \/ ConnectOk
  \/ \E error \in SocketErrors : SocketError(error)
  \/ \E password \in Passwords : Auth(password)
  \/ \E name \in Commands, randomInt \in RandomIds : Command(name, randomInt)
  \/ Close
  \/ \E chunk \in Chunks : ServerSend(chunk)
  \/ Deliver

Spec == Init /\ [][Next]_vars

(* ------------------------------ properties ---------------------------- *)

\* C4: decoding the buffer that encode(id, type, s) produced for an ASCII
\* string s gives exactly {size: len(s) + 10, id: id, type: type, body: s}
CodecRoundTrip ==
  (cPc = "decoded" /\ IsAscii(cBody)) =>
    cPkt = Obj([size |-> Len(cBody) + 10, id |-> cId, type |-> cType, body |-> cBody])

CodecRoundTripWitness ==
  /\ cPc = "decoded" /\ IsAscii(cBody) /\ Len(cBody) >= 1
  /\ cId = -1 /\ cType = SERVERDATA_AUTH
  /\ cPkt.v.body = cBody

\* C5: in every buffer encode produces the little-endian size field at
\* offset 0 is the length of the buffer minus 4 and the last two bytes are
\* 0x00; for an ASCII body the buffer has len(body) + 14 bytes and the body
\* is at bytes 12 .. 12 + len(body)
EncodeLayout ==
  (cPc # "input") =>
    LET n == Len(cBuf)
    IN  /\ n >= 14
        /\ cBuf[1] + cBuf[2] * TwoP8 + cBuf[3] * TwoP8 * TwoP8
             + cBuf[4] * TwoP8 * TwoP8 * TwoP8 = n - 4
        /\ cBuf[n] = 0 /\ cBuf[n - 1] = 0
        /\ IsAscii(cBody) =>
             /\ n = Len(cBody) + 14
             /\ \A i \in 1..Len(cBody) : cBuf[12 + i] = cBody[i]

EncodeLayoutWitness ==
  /\ cPc = "encoded" /\ IsAscii(cBody) /\ Len(cBody) >= 1
  /\ Len(cBuf) = Len(cBody) + 14
  /\ cBuf[13] = 97

(* ------------------------- steps of the session ----------------------- *)
\* the socket emits 'data' with the chunk Head(inbound)
DeliverStep ==
  /\ sock = "open" /\ sock' = "open"
  /\ inbound # << >> /\ inbound' = Tail(inbound) /\ sent' = sent
\* the socket emits 'error' with the error errored'
ErrorStep == errored = "none" /\ errored' # "none"
\* close() is called
CloseStep == closes' = closes + 1
\* the call whose 'data' listener was registered last
Armed == dataListeners[Len(dataListeners)]
\* the send call made last
Latest == Len(calls)
\* the fields of the packet in a chunk, read off the bytes
ChunkId(chunk) ==
  IF chunk[8] >= 128
    THEN chunk[5] + chunk[6] * 256 + chunk[7] * 65536 + (chunk[8] - 256) * 16777216
    ELSE chunk[5] + chunk[6] * 256 + chunk[7] * 65536 + chunk[8] * 16777216
ChunkType(chunk) == chunk[9] + chunk[10] * 256 + chunk[11] * 65536 + chunk[12] * 16777216
ChunkBody(chunk) == SubSeq(chunk, 13, Len(chunk) - 2)
WellFormed(chunk) == Len(chunk) >= 14

\* C1: when the chunk that answers a pending auth is a packet with type 2
\* and id -1, the auth call is rejected with the error 'Wrong RCON password!'
\* and the program goes on, so that close() can still be called
AuthFailureRejects ==
  [][(/\ DeliverStep /\ dataListeners # << >>
      /\ WellFormed(Head(inbound))
      /\ ChunkType(Head(inbound)) = 2 /\ ChunkId(Head(inbound)) = -1
      /\ calls[Armed].kind = "auth" /\ calls[Armed].status = "pending")
     => (/\ calls'[Armed].status = "rejected"
         /\ calls'[Armed].value = Err("Wrong RCON password!")
         /\ uncaught' = "none")]_vars

\* C2 as stated: a chunk of type 0 that answers a pending command resolves
\* it with the body string of the packet
CommandReturnsBody ==
  [][(/\ DeliverStep /\ dataListeners # << >>
      /\ WellFormed(Head(inbound)) /\ ChunkType(Head(inbound)) = 0
      /\ calls[Armed].kind = "command" /\ calls[Armed].status = "pending")
     => (/\ calls'[Armed].status = "resolved"
         /\ calls'[Armed].value.t = "string"
         /\ calls'[Armed].value.v = ChunkBody(Head(inbound)))]_vars

\* C2 amended: a chunk of type 0 that answers a pending command resolves it
\* with the decoded packet object, whose body field is the body string of
\* the packet and whose id and type are those of the packet
CommandReturnsPacket ==
  [][(/\ DeliverStep /\ dataListeners # << >>
      /\ WellFormed(Head(inbound)) /\ ChunkType(Head(inbound)) = 0
      /\ calls[Armed].kind = "command" /\ calls[Armed].status = "pending")
     => (/\ calls'[Armed].status = "resolved"
         /\ calls'[Armed].value.t = "object"
         /\ calls'[Armed].value.v.body = ChunkBody(Head(inbound))
         /\ calls'[Armed].value.v.id = ChunkId(Head(inbound))
         /\ calls'[Armed].value.v.type = 0
         /\ uncaught' = "none")]_vars

CommandReturnsPacketWitness ==
  \E c \in 1..Len(calls) :
    /\ calls[c].kind = "command" /\ calls[c].status = "resolved"
    /\ calls[c].value.t = "object"
    /\ calls[c].value.v.type = 0 /\ calls[c].value.v.body = <<112>>

\* C3: a chunk with type 2 and the id of the request (10) that answers a
\* pending auth resolves it, without error
AuthSuccessResolves ==
  [][(/\ DeliverStep /\ dataListeners # << >>
      /\ WellFormed(Head(inbound))
      /\ ChunkType(Head(inbound)) = 2 /\ ChunkId(Head(inbound)) = AUTH_ID
      /\ calls[Armed].kind = "auth" /\ calls[Armed].status = "pending")
     => (/\ calls'[Armed].status = "resolved"
         /\ calls'[Armed].value.t = "object"
         /\ calls'[Armed].value.v.id = AUTH_ID
         /\ uncaught' = "none")]_vars

AuthSuccessResolvesWitness ==
  \E c \in 1..Len(calls) :
    /\ calls[c].kind = "auth" /\ calls[c].status = "resolved"
    /\ calls[c].value.v.type = 2 /\ calls[c].value.v.id = AUTH_ID
    /\ uncaught = "none"

\* C6: a call that was pending when a later send was made stays pending in
\* every step, whatever chunk or socket error comes; a chunk that the
\* listener accepts resolves the later call, with the packet of that chunk
StolenResponse ==
  [][/\ \A c \in 1..Len(calls) :
          (c < Latest /\ calls[c].status = "pending")
            => (calls'[c].status = "pending" /\ calls'[c].value = Undefined)
     /\ (/\ DeliverStep /\ Latest >= 2
         /\ calls[Latest - 1].status = "pending" /\ calls[Latest].status = "pending"
         /\ WellFormed(Head(inbound))
         /\ ~(ChunkType(Head(inbound)) = 2 /\ ChunkId(Head(inbound)) = -1))
        => (/\ calls'[Latest].status = "resolved"
            /\ calls'[Latest].value.v.id = ChunkId(Head(inbound))
            /\ calls'[Latest].value.v.body = ChunkBody(Head(inbound)))]_vars

StolenResponseWitness ==
  /\ Len(calls) >= 2
  /\ calls[1].status = "pending" /\ calls[1].invoked = 0
  /\ calls[2].status = "resolved"
  /\ sent >= 1

\* C7: a socket error that comes while the send made last is pending
\* rejects that call with the error of the socket
SocketErrorRejects ==
  [][(/\ ErrorStep /\ calls # << >>
      /\ calls[Latest].status = "pending")
     => (/\ calls'[Latest].status = "rejected"
         /\ calls'[Latest].value = Err(errored')
         /\ uncaught' = "none")]_vars

SocketErrorRejectsWitness ==
  /\ calls # << >>
  /\ calls[Latest].status = "rejected"
  /\ calls[Latest].value = Err("ETIMEDOUT")
  /\ errored = "ETIMEDOUT"

\* C8: a socket error before the handshake completes rejects the promise of
\* rcon_connect with that error; from then on no session exists (no call
\* is ever made on it) and no further connection is attempted
ConnectErrorFails ==
  [][/\ (ErrorStep /\ sock = "connecting")
          => (/\ connectP'.status = "rejected"
              /\ connectP'.value = Err(errored')
              /\ sock' = "destroyed"
              /\ attempts' = attempts)
     /\ (connectP.status = "rejected")
          => (/\ connectP' = connectP /\ attempts' = attempts /\ sock' = sock
              /\ calls' = << >> /\ closes' = 0 /\ written' = << >>)]_vars

ConnectErrorFailsWitness ==
  /\ connectP.status = "rejected" /\ connectP.value = Err("ECONNRESET")
  /\ sock = "destroyed" /\ attempts = 1 /\ calls = << >>

\* C9: close() raises no error, the first time or the second, and the
\* second close() leaves the session as the first one left it: the socket
\* ended, everything else untouched
CloseIdempotent ==
  [][CloseStep
     => (/\ uncaught' = "none" /\ ended'
         /\ ended => UNCHANGED <<sock, errored, ended, connectP, attempts,
                                 dataListeners, errorListeners, calls, written,
                                 inbound, sent, uncaught>>)]_vars

CloseIdempotentWitness ==
  /\ closes = 2 /\ ended /\ uncaught = "none" /\ sock = "open"

\* C10 as stated: the 'data' listener of a send is invoked at most once
DataHandlerOneShot ==
  \A c \in 1..Len(calls) : calls[c].invoked <= 1

\* C10 amended: there is one 'data' listener, the one of the send made
\* last; a chunk invokes it and leaves it registered, so every further chunk
\* before the next send invokes it again; an invocation after the call is
\* settled does not change the result of the call, and no other call changes
DataHandlerStays ==
  [][DeliverStep
     => (/\ Len(dataListeners) = 1 /\ Armed = Latest
         /\ dataListeners' = dataListeners
         /\ calls'[Armed].invoked = calls[Armed].invoked + 1
         /\ (calls[Armed].status # "pending")
              => (/\ calls'[Armed].status = calls[Armed].status
                  /\ calls'[Armed].value = calls[Armed].value)
         /\ \A c \in 1..Len(calls) : c # Armed => calls'[c] = calls[c])]_vars

DataHandlerStaysWitness ==
  \E c \in 1..Len(calls) :
    /\ calls[c].invoked >= 2 /\ calls[c].status = "resolved"
    /\ dataListeners = <<c>>

\* C11: in every reachable state the socket has at most one 'data' listener
AtMostOneDataListener == Len(dataListeners) <= 1

AtMostOneDataListenerWitness ==
  /\ Len(calls) >= 2 /\ Len(dataListeners) = 1 /\ sent >= 1
  /\ calls[1].kind # calls[2].kind

\* the chunk is one the listener accepts: long enough to decode and not the
\* packet {type 2, id -1}
Accepted(chunk) ==
  /\ WellFormed(chunk)
  /\ ~(ChunkType(chunk) = 2 /\ ChunkId(chunk) = -1)

\* C12: the first chunk that reaches the listener of a pending auth resolves
\* it with the packet of that chunk, whatever the type of the packet, and
\* no chunk that comes later changes the result of an auth that is resolved
AuthResolvesOnFirstChunk ==
  [][/\ (/\ DeliverStep /\ dataListeners # << >>
         /\ Accepted(Head(inbound))
         /\ calls[Armed].kind = "auth" /\ calls[Armed].status = "pending")
        => (/\ calls'[Armed].status = "resolved"
            /\ calls'[Armed].value.v.type = ChunkType(Head(inbound))
            /\ calls'[Armed].value.v.id = ChunkId(Head(inbound)))
     /\ \A c \in 1..Len(calls) :
          (calls[c].kind = "auth" /\ calls[c].status = "resolved")
            => (calls'[c].status = "resolved" /\ calls'[c].value = calls[c].value)]_vars

\* an auth resolved with a packet of type 0, and a second chunk has reached
\* its listener since
AuthResolvesOnFirstChunkWitness ==
  \E c \in 1..Len(calls) :
    /\ calls[c].kind = "auth" /\ calls[c].status = "resolved"
    /\ calls[c].value.v.type = SERVERDATA_RESPONSE_VALUE
    /\ calls[c].invoked >= 2 /\ uncaught = "none"

\* the id of the request that call c wrote
RequestId(c) == ChunkId(written[c])

\* C13: the first chunk that reaches the listener of a pending command and
\* that the listener accepts resolves it with the packet of that chunk,
\* whatever the id of the packet, equal to the id of the request or not
CommandNoIdCorrelation ==
  [][(/\ DeliverStep /\ dataListeners # << >>
      /\ Accepted(Head(inbound))
      /\ calls[Armed].kind = "command" /\ calls[Armed].status = "pending")
     => (/\ calls'[Armed].status = "resolved"
         /\ calls'[Armed].value.v.id = ChunkId(Head(inbound))
         /\ calls'[Armed].value.v.body = ChunkBody(Head(inbound)))]_vars

\* a command resolved with a packet whose id is not the id it wrote, and
\* another resolved with a packet that echoes the id
CommandNoIdCorrelationWitness ==
  /\ Len(calls) >= 2
  /\ calls[1].kind = "command" /\ calls[1].status = "resolved"
  /\ calls[1].value.v.id # RequestId(1)
  /\ calls[2].kind = "command" /\ calls[2].status = "resolved"
  /\ calls[2].value.v.id = RequestId(2)

\* no auth call has resolved
NotAuthenticated ==
  \A c \in 1..Len(calls) : ~(calls[c].kind = "auth" /\ calls[c].status = "resolved")

\* C14: on a connected session on which no auth has resolved (none made,
\* one pending or one that failed) command can be called: it writes its
\* packet and waits
CommandUnguarded ==
  (Alive /\ HasSession /\ Len(calls) < MaxCalls /\ NotAuthenticated)
    => ENABLED (\E name \in Commands, randomInt \in RandomIds : Command(name, randomInt))

\* a command written and pending on a session on which no auth was made
CommandUnguardedWitness ==
  /\ HasSession /\ sock = "open" /\ NotAuthenticated
  /\ calls # << >> /\ calls[1].kind = "command" /\ calls[1].status = "pending"
  /\ ChunkType(written[1]) = SERVERDATA_EXECCOMMAND
  /\ dataListeners = <<1>>

\* C15: a pending send settles only in a step in which the socket emits
\* 'data' or 'error'; close() settles no call
SettlesOnlyOnDataOrError ==
  [][/\ \A c \in 1..Len(calls) :
          (calls[c].status = "pending" /\ calls'[c].status # "pending")
            => (DeliverStep \/ ErrorStep)
     /\ CloseStep => calls' = calls]_vars

\* close() was called and the send made last is still pending
SettlesOnlyOnDataOrErrorWitness ==
  /\ ended /\ closes >= 1 /\ sock = "open"
  /\ calls # << >> /\ calls[Latest].status = "pending"

\* C16: a chunk of fewer than 12 bytes that reaches the listener of a pending
\* send rejects that send, and nothing is thrown
ShortChunkRejects ==
  [][(/\ DeliverStep /\ dataListeners # << >>
      /\ Len(Head(inbound)) < 12
      /\ calls[Armed].status = "pending")
     => (/\ calls'[Armed].status = "rejected"
         /\ uncaught' = "none")]_vars

\* C17: the packet written by an auth has type 3, id 10 and a password as
\* body; the packet written by a command has type 2, a command text as body
\* and an id in 0 .. 9999; each is the body plus 14 bytes long
WrittenPackets ==
  /\ Len(written) = Len(calls)
  /\ \A c \in 1..Len(written) :
       /\ Len(written[c]) = Len(ChunkBody(written[c])) + 14
       /\ calls[c].kind = "auth" =>
            /\ ChunkType(written[c]) = 3 /\ ChunkId(written[c]) = 10
            /\ ChunkBody(written[c]) \in Passwords
       /\ calls[c].kind = "command" =>
            /\ ChunkType(written[c]) = 2
            /\ ChunkId(written[c]) >= 0 /\ ChunkId(written[c]) <= 9999
            /\ ChunkBody(written[c]) \in Commands

WrittenPacketsWitness ==
  /\ Len(written) >= 2
  /\ calls[1].kind = "auth" /\ ChunkBody(written[1]) = <<112>>
  /\ calls[2].kind = "command" /\ ChunkId(written[2]) = 9999
  /\ ChunkBody(written[2]) = <<99>>

\* C18: once the connection is made the socket has exactly one 'error'
\* listener in every state, the one of the connection until the first send
\* and the one of the send made last after it; a socket error is never
\* thrown, and one that comes when the promise of that listener is settled
\* changes no call and no promise
OneErrorListener ==
  [][/\ HasSession' => (Len(errorListeners') = 1 /\ errorListeners'[1] = Len(calls'))
     /\ ErrorStep => uncaught' = "none"
     /\ (/\ ErrorStep /\ HasSession
         /\ (calls = << >> \/ calls[Latest].status # "pending"))
        => (calls' = calls /\ connectP' = connectP)]_vars

\* a socket error came after the send made last was resolved
OneErrorListenerWitness ==
  /\ HasSession /\ errored # "none" /\ uncaught = "none"
  /\ calls # << >> /\ calls[Latest].status = "resolved"
  /\ errorListeners = <<Latest>>

\* C19: a send writes its packet and registers its listener in one step: in
\* every state the 'data' listener is the one of the call that wrote last,
\* so a chunk that comes after a write reaches the listener of that call
\* and never finds the socket without a listener
WriteArmsListener ==
  [][/\ Len(written') = Len(calls')
     /\ written' # << >> => dataListeners' = <<Len(written')>>
     /\ DeliverStep
          => (/\ dataListeners # << >> /\ Armed = Len(written)
              /\ calls'[Len(written)].invoked = calls[Len(written)].invoked + 1)]_vars

\* the second call wrote while the first was pending, and the chunk that
\* came then reached the listener of the second call only
WriteArmsListenerWitness ==
  /\ Len(written) >= 2
  /\ calls[1].invoked = 0 /\ calls[2].invoked = 1
  /\ dataListeners = <<2>>

====
